---- MODULE Spec2Model ----
(***************************************************************************)
(* Model of src/app.py.                                                     *)
(*   Spec            the Discord OAuth2 callback pipeline                  *)
(*                   (discord_callback), one request at a time             *)
(*   SpecRoutes      the same with the /frontend_redirect route            *)
(*   SpecStartup     the module body and the __main__ block                *)
(*   SpecConcurrent  several callback requests in progress at once         *)
(*                                                                         *)
(* Python values.  A str is a sequence of string chunks; the strings that  *)
(* int() parses are written one character per chunk (<<"4","2">> is "42"). *)
(* None is a value distinct from every str.  A JSON object (dict) is a     *)
(* function from the keys that are present to their values.                *)
(***************************************************************************)
EXTENDS Integers, Sequences, FiniteSets, TLC

\* Number of callback requests the server handles one after the other.
MaxRequests == 2

\* Number of callback requests in progress at the same time.
MaxConcurrent == 2

None == <<"<None>">>
Absent == <<"<absent>">>

\* ---------------------------------------------------------------- Python

\* Variant: only None is falsy.
Truthy_EmptyIsTrue(x) == x # None

\* bool(x) for x a str or None: None and "" are falsy.
Truthy(x) == x # None /\ x # <<>>

\* dict.get(key) and dict.get(key, default)
Get(d, k) == IF k \in DOMAIN d THEN d[k] ELSE None

GetOr(d, k, default) == IF k \in DOMAIN d THEN d[k] ELSE default

\* A dict from a record in which Absent marks the keys that are missing.
Dict(r) == [k \in {f \in DOMAIN r : r[f] # Absent} |-> r[k]]

Digits == <<"0", "1", "2", "3", "4", "5", "6", "7", "8", "9">>

DigitVal(c) == CHOOSE d \in 0..9 : Digits[d + 1] = c

IsDigits(s) == Len(s) > 0 /\ \A i \in 1..Len(s) : \E d \in 0..9 : Digits[d + 1] = s[i]

\* int(x): TypeError for None, ValueError for a str that is not a number.
IntError(x) == IF x = None THEN "TypeError" ELSE IF IsDigits(x) THEN "ok" ELSE "ValueError"

RECURSIVE ParseInt(_)
ParseInt(s) == IF s = <<>> THEN 0 ELSE ParseInt(SubSeq(s, 1, Len(s) - 1)) * 10 + DigitVal(s[Len(s)])

\* str(n) for n >= 0, as an f-string formats it.
RECURSIVE IntToStr(_)
IntToStr(n) == IF n < 10 THEN <<Digits[n + 1]>> ELSE IntToStr(n \div 10) \o <<Digits[(n % 10) + 1]>>

\* An f-string field: str(None) is "None".
Fmt(x) == IF x = None THEN <<"None">> ELSE x

\* n >> k for n >= 0
ShiftRight(n, k) == n \div (2 ^ k)

\* ---------------------------------------------------------------- requests

\* Variant: 4xx answers are let through.
raise_for_status_Only5xx(status) == status >= 500 /\ status < 600

\* Response.raise_for_status(): HTTPError for 4xx and 5xx only.
raise_for_status(status) == status >= 400 /\ status < 600

\* Final status codes a call may return (requests follows 301/302 itself;
\* a 300 is handed to the caller).
StatusCodes == {200, 300, 404, 503}

NoResponse == [kind |-> "none", status |-> 0, body |-> <<>>]

NetworkFault == [kind |-> "fault", status |-> 0, body |-> <<>>]

Http(status, body) == [kind |-> "http", status |-> status, body |-> body]

\* Variant: raise_for_status() is not called.
Raised_FaultOnly(resp) == resp.kind = "fault"

\* The call raised a RequestException (connection fault or HTTPError).
Raised(resp) == resp.kind = "fault" \/ (resp.kind = "http" /\ raise_for_status(resp.status))

\* ---------------------------------------------------------------- configuration

REQUIRED_ROLE_ID == <<"1381230703504527471">>

GuildIds == {None, <<"guild1">>}

BotTokens == {None, <<>>, <<"bot1">>}

\* ---------------------------------------------------------------- inputs

Codes == {None, <<>>, <<"abc">>}

TokenBodies == {Dict([access_token |-> a]) : a \in {Absent, <<>>, <<"t1">>}}

UserIds == {Absent, <<>>, <<"4", "2">>, <<"2", "9", "3", "6", "0", "1", "2", "8">>}

UserBodies == {Dict([id |-> i, username |-> u, global_name |-> g, avatar |-> a, discriminator |-> d]) : i \in UserIds, u \in {Absent, <<"bar">>}, g \in {None, <<"Al">>}, a \in {None, <<"a1b2">>}, d \in {Absent, <<"0">>, <<"1", "2", "3", "4">>, <<"0", "0", "0", "7">>}}

RoleSets == {{}, {<<"A">>, <<"B">>}, {<<"A">>, REQUIRED_ROLE_ID, <<"B">>}}

MemberBodies == {<<>>} \cup {[roles |-> rs] : rs \in RoleSets}

SignedTokens == {<<"signed123">>}

Responses(bodies) == {NetworkFault} \cup {Http(s, b) : s \in StatusCodes, b \in bodies}

\* ---------------------------------------------------------------- state

VARIABLES pc, served, REQUIRED_GUILD_ID, DISCORD_BOT_TOKEN, code, token_response, access_token, user_response, discord_user_id, display_name, profile_picture_url, member_detail_response, has_required_role, firebase_custom_token, calls, response, page, env, boot, thread, locals

vars == <<pc, served, REQUIRED_GUILD_ID, DISCORD_BOT_TOKEN, code, token_response, access_token, user_response, discord_user_id, display_name, profile_picture_url, member_detail_response, has_required_role, firebase_custom_token, calls, response, page, env, boot, thread, locals>>

\* The variables of the other routes and of the other specifications.
rest == <<page, env, boot, thread, locals>>

config == <<REQUIRED_GUILD_ID, DISCORD_BOT_TOKEN>>

NoClaims == [discord_username |-> None, discord_pfp |-> None, has_role |-> FALSE]

Call(name, subject, auth, claims) == [name |-> name, subject |-> subject, auth |-> auth, claims |-> claims]

NoReply == [code |-> 0, endpoint |-> "", args |-> <<>>, exc |-> ""]

\* url_for(endpoint, **values): values that are None are dropped.
url_for(values) == [k \in {f \in DOMAIN values : values[f] # None} |-> values[k]]

\* redirect(url_for("frontend_redirect", ...)): a 302 to the redirect step.
redirect(values) == [code |-> 302, endpoint |-> "frontend_redirect", args |-> url_for(values), exc |-> ""]

\* An exception no except clause catches: Flask answers 500.
Unhandled(exc) == [code |-> 500, endpoint |-> "", args |-> <<>>, exc |-> exc]

Failure(status) == redirect([status |-> <<status>>])

\* Nothing has been rendered by /frontend_redirect.
NoPage == [via |-> "none", token |-> <<>>, discord_user_id |-> <<>>, discord_username |-> <<>>, discord_pfp |-> <<>>, status |-> <<>>]

\* The module was imported by a WSGI server: the __main__ block did not run.
NoEnv == <<>>

Imported == [stage |-> "imported"]

NoThreads == <<>>

\* ---------------------------------------------------------------- derivations

\* Lines 123-134: the avatar URL, or the exception int() raises.
EmbedUrl(index) == <<"https://cdn.discordapp.com/embed/avatars/">> \o IntToStr(index) \o <<".png">>

AvatarUrl(id, avatar) == <<"https://cdn.discordapp.com/avatars/">> \o Fmt(id) \o <<"/">> \o avatar \o <<".png">>

\* Line 134: int(discord_user_id) >> 22 % 6.  % binds tighter than >>, so
\* the shift count is 22 % 6.
DefaultAvatarIndex(id) == ShiftRight(ParseInt(id), 22 % 6)

\* Variant: the modulus of the other branch.
LegacyAvatarIndex_Mod6(discriminator) == ParseInt(discriminator) % 6

\* Line 132: int(discriminator) % 5
LegacyAvatarIndex(discriminator) == ParseInt(discriminator) % 5

IsLegacy(discriminator) == Truthy(discriminator) /\ discriminator # <<"0">>

Derived(exc, url) == [exc |-> exc, url |-> url]

DeriveAvatar(user_info, default_url) ==
  LET id == Get(user_info, "id")
      avatar == Get(user_info, "avatar")
      discriminator == Get(user_info, "discriminator")
  IN  IF Truthy(avatar) THEN Derived("ok", AvatarUrl(id, avatar))
      ELSE IF IsLegacy(discriminator)
           THEN IF IntError(discriminator) # "ok" THEN Derived(IntError(discriminator), default_url)
                ELSE Derived("ok", EmbedUrl(LegacyAvatarIndex(discriminator)))
           ELSE IF IntError(id) # "ok" THEN Derived(IntError(id), default_url)
                ELSE Derived("ok", EmbedUrl(DefaultAvatarIndex(id)))

\* Line 122: display_name = global_name if global_name else username
DisplayName(user_info) == IF Truthy(Get(user_info, "global_name")) THEN Get(user_info, "global_name") ELSE Get(user_info, "username")

\* Variant: any role at all is accepted.
HasRequiredRole_AnyRole(member_data) == GetOr(member_data, "roles", {}) # {}

\* Line 156: REQUIRED_ROLE_ID in member_data.get("roles", [])
HasRequiredRole(member_data) == REQUIRED_ROLE_ID \in GetOr(member_data, "roles", {})

\* Variant: `or` in place of `and`.
RoleCheckConfigured_Either(guild, bot) == Truthy(guild) \/ Truthy(bot)

\* Line 146: if REQUIRED_GUILD_ID and DISCORD_BOT_TOKEN
RoleCheckConfigured(guild, bot) == Truthy(guild) /\ Truthy(bot)

\* Lines 175-179: the custom claims of the Firebase token.
Claims(name, pfp) == [discord_username |-> name, discord_pfp |-> pfp, has_role |-> TRUE]

\* Lines 183-187: the redirect of a successful callback.
SuccessRedirect(token, id, name, pfp) == redirect([token |-> token, discord_user_id |-> id, discord_username |-> name, discord_pfp |-> pfp, status |-> <<"success">>])

\* ---------------------------------------------------------------- actions

Fresh ==
  /\ code = None /\ access_token = None /\ discord_user_id = None
  /\ display_name = None /\ profile_picture_url = None
  /\ token_response = NoResponse /\ user_response = NoResponse
  /\ member_detail_response = NoResponse
  /\ has_required_role = FALSE /\ firebase_custom_token = None
  /\ calls = <<>> /\ response = NoReply

\* Module level, lines 55-57: the configuration is read once from the environment.
Init ==
  /\ pc = "idle" /\ served = 0
  /\ REQUIRED_GUILD_ID \in GuildIds
  /\ DISCORD_BOT_TOKEN \in BotTokens
  /\ Fresh
  /\ page = NoPage /\ env = NoEnv /\ boot = Imported
  /\ thread = NoThreads /\ locals = NoThreads

\* Lines 77-80: GET /callback arrives; a missing or empty code ends the request.
ReceiveCallback ==
  /\ pc = "idle" /\ served < MaxRequests
  /\ served' = served + 1
  /\ \E c \in Codes :
       /\ code' = c
       /\ IF Truthy(c)
          THEN pc' = "token_exchange" /\ response' = response
          ELSE pc' = "done" /\ response' = Failure("error_no_code")
  /\ UNCHANGED <<config, token_response, access_token, user_response, discord_user_id, display_name, profile_picture_url, member_detail_response, has_required_role, firebase_custom_token, calls>>
  /\ UNCHANGED rest

\* Variant: a failed token exchange is tried a second time.
ExchangeCode_RetryOnce ==
  /\ pc = "token_exchange"
  /\ calls' = Append(calls, Call("token_exchange", code, None, NoClaims))
  /\ \E r \in Responses(TokenBodies) :
       /\ token_response' = r
       /\ IF Raised(r)
          THEN /\ IF calls = <<>>
                  THEN pc' = "token_exchange" /\ response' = response
                  ELSE pc' = "done" /\ response' = Failure("error_token_exchange")
               /\ UNCHANGED <<access_token, discord_user_id, display_name, profile_picture_url>>
          ELSE /\ access_token' = Get(r.body, "access_token")
               /\ IF Truthy(access_token')
                  THEN /\ pc' = "fetch_user" /\ response' = response
                       /\ discord_user_id' = None
                       /\ display_name' = <<"Unknown User">>
                       /\ profile_picture_url' = <<"https://discord.com/assets/f838f7c1ed7bc7ca2d4b.png">>
                  ELSE /\ pc' = "done" /\ response' = Failure("error_no_access_token")
                       /\ UNCHANGED <<discord_user_id, display_name, profile_picture_url>>
  /\ UNCHANGED <<served, config, code, user_response, member_detail_response, has_required_role, firebase_custom_token>>
  /\ UNCHANGED rest

\* Lines 83-109: POST /oauth2/token.
ExchangeCode ==
  /\ pc = "token_exchange"
  /\ calls' = Append(calls, Call("token_exchange", code, None, NoClaims))
  /\ \E r \in Responses(TokenBodies) :
       /\ token_response' = r
       /\ IF Raised(r)
          THEN /\ pc' = "done" /\ response' = Failure("error_token_exchange")
               /\ UNCHANGED <<access_token, discord_user_id, display_name, profile_picture_url>>
          ELSE /\ access_token' = Get(r.body, "access_token")
               /\ IF Truthy(access_token')
                  THEN /\ pc' = "fetch_user" /\ response' = response
                       /\ discord_user_id' = None
                       /\ display_name' = <<"Unknown User">>
                       /\ profile_picture_url' = <<"https://discord.com/assets/f838f7c1ed7bc7ca2d4b.png">>
                  ELSE /\ pc' = "done" /\ response' = Failure("error_no_access_token")
                       /\ UNCHANGED <<discord_user_id, display_name, profile_picture_url>>
  /\ UNCHANGED <<served, config, code, user_response, member_detail_response, has_required_role, firebase_custom_token>>
  /\ UNCHANGED rest

\* Lines 111-141: GET /users/@me and the derivation of the identity.
FetchUser ==
  /\ pc = "fetch_user"
  /\ calls' = Append(calls, Call("user_fetch", <<"@me">>, access_token, NoClaims))
  /\ \E r \in Responses(UserBodies) :
       /\ user_response' = r
       /\ IF Raised(r)
          THEN /\ pc' = "done" /\ response' = Failure("error_fetch_user_info")
               /\ UNCHANGED <<discord_user_id, display_name, profile_picture_url>>
          ELSE LET d == DeriveAvatar(r.body, profile_picture_url)
               IN  /\ discord_user_id' = Get(r.body, "id")
                   /\ display_name' = DisplayName(r.body)
                   /\ profile_picture_url' = d.url
                   /\ IF d.exc # "ok"
                      THEN pc' = "done" /\ response' = Unhandled(d.exc)
                      ELSE IF Truthy(discord_user_id')
                           THEN pc' = "verify_role" /\ response' = response
                           ELSE pc' = "done" /\ response' = Failure("error_missing_user_id")
  /\ UNCHANGED <<served, config, code, token_response, access_token, member_detail_response, has_required_role, firebase_custom_token>>
  /\ UNCHANGED rest

\* Variant: the member lookup is authorised with the user's access token.
VerifyRole_BearerAuth ==
  /\ pc = "verify_role"
  /\ IF RoleCheckConfigured(REQUIRED_GUILD_ID, DISCORD_BOT_TOKEN)
     THEN /\ calls' = Append(calls, Call("guild_member", discord_user_id, access_token, NoClaims))
          /\ \E r \in Responses(MemberBodies) :
               /\ member_detail_response' = r
               /\ IF Raised(r)
                  THEN /\ pc' = "done" /\ response' = Failure("error_role_check_failed")
                       /\ has_required_role' = FALSE
                  ELSE /\ has_required_role' = HasRequiredRole(r.body)
                       /\ IF has_required_role'
                          THEN pc' = "issue_token" /\ response' = response
                          ELSE pc' = "done" /\ response' = Failure("unauthorized_role")
     ELSE /\ pc' = "done" /\ response' = Failure("error_role_check_config_missing")
          /\ UNCHANGED <<calls, member_detail_response, has_required_role>>
  /\ UNCHANGED <<served, config, code, token_response, access_token, user_response, discord_user_id, display_name, profile_picture_url, firebase_custom_token>>
  /\ UNCHANGED rest

\* Lines 145-170: the role gate.
VerifyRole ==
  /\ pc = "verify_role"
  /\ IF RoleCheckConfigured(REQUIRED_GUILD_ID, DISCORD_BOT_TOKEN)
     THEN /\ calls' = Append(calls, Call("guild_member", discord_user_id, DISCORD_BOT_TOKEN, NoClaims))
          /\ \E r \in Responses(MemberBodies) :
               /\ member_detail_response' = r
               /\ IF Raised(r)
                  THEN /\ pc' = "done" /\ response' = Failure("error_role_check_failed")
                       /\ has_required_role' = FALSE
                  ELSE /\ has_required_role' = HasRequiredRole(r.body)
                       /\ IF has_required_role'
                          THEN pc' = "issue_token" /\ response' = response
                          ELSE pc' = "done" /\ response' = Failure("unauthorized_role")
     ELSE /\ pc' = "done" /\ response' = Failure("error_role_check_config_missing")
          /\ UNCHANGED <<calls, member_detail_response, has_required_role>>
  /\ UNCHANGED <<served, config, code, token_response, access_token, user_response, discord_user_id, display_name, profile_picture_url, firebase_custom_token>>
  /\ UNCHANGED rest

\* Variant: no except clause around the issuance.
IssueToken_Uncaught ==
  /\ pc = "issue_token"
  /\ calls' = Append(calls, Call("create_custom_token", discord_user_id, None, Claims(display_name, profile_picture_url)))
  /\ \/ /\ firebase_custom_token' = firebase_custom_token
        /\ response' = Unhandled("Exception")
     \/ \E t \in SignedTokens :
          /\ firebase_custom_token' = t
          /\ response' = SuccessRedirect(t, discord_user_id, display_name, profile_picture_url)
  /\ pc' = "done"
  /\ UNCHANGED <<served, config, code, token_response, access_token, user_response, discord_user_id, display_name, profile_picture_url, member_detail_response, has_required_role>>
  /\ UNCHANGED rest

\* Lines 173-190: auth.create_custom_token and the final redirect.
IssueToken ==
  /\ pc = "issue_token"
  /\ calls' = Append(calls, Call("create_custom_token", discord_user_id, None, Claims(display_name, profile_picture_url)))
  /\ \/ /\ firebase_custom_token' = firebase_custom_token
        /\ response' = Failure("error_firebase_token")
     \/ \E t \in SignedTokens :
          /\ firebase_custom_token' = t
          /\ response' = SuccessRedirect(t, discord_user_id, display_name, profile_picture_url)
  /\ pc' = "done"
  /\ UNCHANGED <<served, config, code, token_response, access_token, user_response, discord_user_id, display_name, profile_picture_url, member_detail_response, has_required_role>>
  /\ UNCHANGED rest

\* The handler has returned: its locals are gone and the worker is free.
Finish ==
  /\ pc = "done"
  /\ pc' = "idle"
  /\ code' = None /\ access_token' = None /\ discord_user_id' = None
  /\ display_name' = None /\ profile_picture_url' = None
  /\ token_response' = NoResponse /\ user_response' = NoResponse
  /\ member_detail_response' = NoResponse
  /\ has_required_role' = FALSE /\ firebase_custom_token' = None
  /\ calls' = <<>> /\ response' = NoReply
  /\ page' = NoPage
  /\ UNCHANGED <<served, config, env, boot, thread, locals>>

\* Variant: the page always announces success.
FrontendRedirect_AlwaysSuccess(args, via) == [via |-> via, token |-> GetOr(args, "token", <<>>), discord_user_id |-> GetOr(args, "discord_user_id", <<>>), discord_username |-> GetOr(args, "discord_username", <<>>), discord_pfp |-> GetOr(args, "discord_pfp", <<>>), status |-> <<"success">>]

\* Lines 204-218: the fragment of the page frontend_redirect renders from the
\* query parameters; via records who sent the request.
FrontendRedirect(args, via) == [via |-> via, token |-> GetOr(args, "token", <<>>), discord_user_id |-> GetOr(args, "discord_user_id", <<>>), discord_username |-> GetOr(args, "discord_username", <<>>), discord_pfp |-> GetOr(args, "discord_pfp", <<>>), status |-> GetOr(args, "status", <<"error">>)]

\* Query strings a client may send to /frontend_redirect on its own.
DirectArgs == {Dict([status |-> st, token |-> t]) : st \in {Absent, <<"success">>, <<"anything">>}, t \in {Absent, <<"forged">>}}

\* Lines 192-236: the user agent follows the 302 of the callback.
FollowRedirect ==
  /\ pc = "done" /\ response.code = 302 /\ page.via # "callback"
  /\ page' = FrontendRedirect(response.args, "callback")
  /\ UNCHANGED <<pc, served, config, code, token_response, access_token, user_response, discord_user_id, display_name, profile_picture_url, member_detail_response, has_required_role, firebase_custom_token, calls, response, env, boot, thread, locals>>

\* Lines 192-236: a client requests /frontend_redirect itself.
DirectFrontendRedirect ==
  /\ \E args \in DirectArgs : page' = FrontendRedirect(args, "direct")
  /\ UNCHANGED <<pc, served, config, code, token_response, access_token, user_response, discord_user_id, display_name, profile_picture_url, member_detail_response, has_required_role, firebase_custom_token, calls, response, env, boot, thread, locals>>

Next == ReceiveCallback \/ ExchangeCode \/ FetchUser \/ VerifyRole \/ IssueToken \/ Finish

Spec == Init /\ [][Next]_vars

\* ---------------------------------------------------------------- startup

EnvNames == {"DISCORD_CLIENT_ID", "DISCORD_CLIENT_SECRET", "DISCORD_REDIRECT_URI", "DISCORD_GUILD_ID", "DISCORD_BOT_TOKEN", "FIREBASE_SERVICE_ACCOUNT_KEY", "FLASK_SECRET_KEY", "FLASK_ENV"}

\* Environments of the process: a variable is unset (None) or set; the bot
\* token and the secret key may also be set to the empty string.  key_file
\* tells whether serviceAccountKey.json exists.
EnvValues(name) == CASE name = "FLASK_ENV" -> {None, <<"development">>, <<"production">>} [] name \in {"DISCORD_BOT_TOKEN", "FLASK_SECRET_KEY"} -> {None, <<>>, <<"set">>} [] OTHER -> {None, <<"set">>}

Envs == {e \in [vars : [EnvNames -> {None, <<>>, <<"set">>, <<"development">>, <<"production">>}], key_file : BOOLEAN] : \A n \in EnvNames : e.vars[n] \in EnvValues(n)}

\* os.getenv(name) and os.getenv(name, default)
getenv(e, name) == e.vars[name]

getenv_default(e, name, default) == IF e.vars[name] = None THEN default ELSE e.vars[name]

\* Variant: the bot token is not in the list.
required_env_vars_NoBotToken == <<"DISCORD_CLIENT_ID", "DISCORD_CLIENT_SECRET", "DISCORD_GUILD_ID">>

\* Line 241
required_env_vars == <<"DISCORD_CLIENT_ID", "DISCORD_CLIENT_SECRET", "DISCORD_GUILD_ID", "DISCORD_BOT_TOKEN">>

DefaultSecretKey == <<"a_very_insecure_default_secret_key_change_this_in_production">>

DefaultRedirectUri == <<"https://scenepacks-652656771624.us-central1.run.app/callback">>

Boot(stage, secret_key, redirect_uri, firebase, i, exit_code, warned) == [stage |-> stage, secret_key |-> secret_key, redirect_uri |-> redirect_uri, firebase |-> firebase, i |-> i, exit_code |-> exit_code, warned |-> warned]

\* `python app.py` has been started and nothing has run yet.
InitStartup ==
  /\ pc = "idle" /\ served = 0
  /\ REQUIRED_GUILD_ID = None /\ DISCORD_BOT_TOKEN = None
  /\ Fresh
  /\ page = NoPage
  /\ thread = NoThreads /\ locals = NoThreads
  /\ env \in Envs
  /\ boot = Boot("start", None, None, "none", 0, 0, FALSE)

callbackVars == <<pc, served, code, token_response, access_token, user_response, discord_user_id, display_name, profile_picture_url, member_detail_response, has_required_role, firebase_custom_token, calls, response>>

\* Lines 12-57: the module body.  The secret key and the redirect URI have
\* defaults; a failure to load the Firebase credential is printed and
\* swallowed (lines 48-51).
LoadModule ==
  /\ boot.stage = "start"
  /\ REQUIRED_GUILD_ID' = getenv(env, "DISCORD_GUILD_ID")
  /\ DISCORD_BOT_TOKEN' = getenv(env, "DISCORD_BOT_TOKEN")
  /\ \E loaded \in BOOLEAN :
       /\ IF Truthy(getenv(env, "FIREBASE_SERVICE_ACCOUNT_KEY")) THEN TRUE ELSE loaded = env.key_file
       /\ boot' = Boot("main", getenv_default(env, "FLASK_SECRET_KEY", DefaultSecretKey), getenv_default(env, "DISCORD_REDIRECT_URI", DefaultRedirectUri), IF loaded THEN "initialized" ELSE "failed", 1, 0, FALSE)
  /\ UNCHANGED <<callbackVars, page, env, thread, locals>>

\* Lines 242-245: one turn of the loop over required_env_vars.
CheckRequired ==
  /\ boot.stage = "main" /\ boot.i <= Len(required_env_vars)
  /\ IF Truthy(getenv(env, required_env_vars[boot.i]))
     THEN boot' = [boot EXCEPT !.i = boot.i + 1]
     ELSE boot' = [boot EXCEPT !.stage = "exited", !.exit_code = 1]
  /\ UNCHANGED <<callbackVars, config, page, env, thread, locals>>

\* Lines 248-250: a missing Firebase key is reported, nothing more.
CheckFirebaseKey ==
  /\ boot.stage = "main" /\ boot.i > Len(required_env_vars)
  /\ boot' = [boot EXCEPT !.stage = "launch", !.warned = ~Truthy(getenv(env, "FIREBASE_SERVICE_ACCOUNT_KEY"))]
  /\ UNCHANGED <<callbackVars, config, page, env, thread, locals>>

\* Lines 253-273: Flask's server in development mode, Gunicorn otherwise.
Launch ==
  /\ boot.stage = "launch"
  /\ boot' = [boot EXCEPT !.stage = IF getenv(env, "FLASK_ENV") = <<"development">> THEN "serving_dev" ELSE "serving_prod"]
  /\ UNCHANGED <<callbackVars, config, page, env, thread, locals>>

NextStartup == LoadModule \/ CheckRequired \/ CheckFirebaseKey \/ Launch

SpecStartup == InitStartup /\ [][NextStartup]_vars

\* ---------------------------------------------------------------- concurrent requests

\* discord_callback as a function of one invocation's frame.  A frame holds
\* what the invocation was given (code, the answers of its calls), its local
\* variables, the calls it has made and its response.

FreshFrame == [pc |-> "idle", code |-> None, token_response |-> NoResponse, user_response |-> NoResponse, member_detail_response |-> NoResponse, issuer_result |-> None, calls |-> <<>>, response |-> NoReply, access_token |-> None, discord_user_id |-> None, display_name |-> None, profile_picture_url |-> None, has_required_role |-> FALSE, firebase_custom_token |-> None]

Return(f, resp) == [f EXCEPT !.pc = "done", !.response = resp]

\* Lines 77-80
StepReceive(f, c) ==
  IF Truthy(c) THEN [f EXCEPT !.code = c, !.pc = "token_exchange"]
  ELSE Return([f EXCEPT !.code = c], Failure("error_no_code"))

\* Lines 83-109
StepExchange(f, r) ==
  LET g == [f EXCEPT !.token_response = r, !.calls = Append(f.calls, Call("token_exchange", f.code, None, NoClaims))]
      tok == Get(r.body, "access_token")
  IN  IF Raised(r) THEN Return(g, Failure("error_token_exchange"))
      ELSE IF Truthy(tok)
           THEN [g EXCEPT !.access_token = tok, !.pc = "fetch_user", !.discord_user_id = None, !.display_name = <<"Unknown User">>, !.profile_picture_url = <<"https://discord.com/assets/f838f7c1ed7bc7ca2d4b.png">>]
           ELSE Return([g EXCEPT !.access_token = tok], Failure("error_no_access_token"))

\* Lines 111-141
StepFetch(f, r) ==
  LET g == [f EXCEPT !.user_response = r, !.calls = Append(f.calls, Call("user_fetch", <<"@me">>, f.access_token, NoClaims))]
      d == DeriveAvatar(r.body, f.profile_picture_url)
      h == [g EXCEPT !.discord_user_id = Get(r.body, "id"), !.display_name = DisplayName(r.body), !.profile_picture_url = d.url]
  IN  IF Raised(r) THEN Return(g, Failure("error_fetch_user_info"))
      ELSE IF d.exc # "ok" THEN Return(h, Unhandled(d.exc))
      ELSE IF Truthy(h.discord_user_id) THEN [h EXCEPT !.pc = "verify_role"]
      ELSE Return(h, Failure("error_missing_user_id"))

\* Lines 145-170
StepVerify(f, r, guild, bot) ==
  LET g == [f EXCEPT !.member_detail_response = r, !.calls = Append(f.calls, Call("guild_member", f.discord_user_id, bot, NoClaims))]
  IN  IF ~RoleCheckConfigured(guild, bot) THEN Return(f, Failure("error_role_check_config_missing"))
      ELSE IF Raised(r) THEN Return(g, Failure("error_role_check_failed"))
      ELSE IF HasRequiredRole(r.body) THEN [g EXCEPT !.has_required_role = TRUE, !.pc = "issue_token"]
      ELSE Return(g, Failure("unauthorized_role"))

\* Lines 173-190; result is the issuer's token, or None when it raised.
StepIssue(f, result) ==
  LET g == [f EXCEPT !.issuer_result = result, !.calls = Append(f.calls, Call("create_custom_token", f.discord_user_id, None, Claims(f.display_name, f.profile_picture_url)))]
  IN  IF result = None THEN Return(g, Failure("error_firebase_token"))
      ELSE Return([g EXCEPT !.firebase_custom_token = result], SuccessRedirect(result, f.discord_user_id, f.display_name, f.profile_picture_url))

Workers == 1..MaxConcurrent

\* What belongs to the request (Flask's request context, the wire) and what
\* is a local variable of the handler.
RequestFields == {"pc", "code", "token_response", "user_response", "member_detail_response", "issuer_result", "calls", "response"}

LocalFields == {"access_token", "discord_user_id", "display_name", "profile_picture_url", "has_required_role", "firebase_custom_token"}

\* Variant: the handler's variables are module globals, one copy for all.
Slot_Global(w) == 1

\* Lines 77-179: the handler's variables are locals of the invocation.
Slot(w) == w

FrameOf(w) == [k \in RequestFields \cup LocalFields |-> IF k \in RequestFields THEN thread[w][k] ELSE locals[Slot(w)][k]]

Store(w, f) ==
  /\ thread' = [thread EXCEPT ![w] = [k \in RequestFields |-> f[k]]]
  /\ locals' = [locals EXCEPT ![Slot(w)] = [k \in LocalFields |-> f[k]]]

\* Answers given to concurrent requests.
WCodes == {None, <<"abc">>}

WTokenResponses == {NetworkFault, Http(200, [access_token |-> <<"t1">>]), Http(200, [access_token |-> <<"t2">>])}

WUserResponses == {Http(404, <<>>), Http(200, [id |-> <<"4", "2">>, global_name |-> <<"Al">>, avatar |-> None, discriminator |-> <<"0">>]), Http(200, [id |-> <<"2", "9", "3", "6", "0", "1", "2", "8">>, username |-> <<"bar">>, avatar |-> <<"a1b2">>])}

WMemberResponses == {Http(200, [roles |-> {<<"A">>, REQUIRED_ROLE_ID, <<"B">>}]), Http(200, [roles |-> {<<"A">>, <<"B">>}])}

WIssuerResults == {None, <<"signed123">>, <<"signed456">>}

InitConcurrent ==
  /\ pc = "idle" /\ served = 0
  /\ REQUIRED_GUILD_ID \in GuildIds
  /\ DISCORD_BOT_TOKEN \in BotTokens
  /\ Fresh
  /\ page = NoPage /\ env = NoEnv /\ boot = Imported
  /\ thread = [w \in Workers |-> [k \in RequestFields |-> FreshFrame[k]]]
  /\ locals = [w \in Workers |-> [k \in LocalFields |-> FreshFrame[k]]]

Arrive(w) ==
  /\ thread[w].pc = "idle"
  /\ \E c \in WCodes : Store(w, StepReceive(FrameOf(w), c))
  /\ UNCHANGED <<callbackVars, config, page, env, boot>>

Exchange(w) ==
  /\ thread[w].pc = "token_exchange"
  /\ \E r \in WTokenResponses : Store(w, StepExchange(FrameOf(w), r))
  /\ UNCHANGED <<callbackVars, config, page, env, boot>>

Fetch(w) ==
  /\ thread[w].pc = "fetch_user"
  /\ \E r \in WUserResponses : Store(w, StepFetch(FrameOf(w), r))
  /\ UNCHANGED <<callbackVars, config, page, env, boot>>

Verify(w) ==
  /\ thread[w].pc = "verify_role"
  /\ IF RoleCheckConfigured(REQUIRED_GUILD_ID, DISCORD_BOT_TOKEN)
     THEN \E r \in WMemberResponses : Store(w, StepVerify(FrameOf(w), r, REQUIRED_GUILD_ID, DISCORD_BOT_TOKEN))
     ELSE Store(w, StepVerify(FrameOf(w), NoResponse, REQUIRED_GUILD_ID, DISCORD_BOT_TOKEN))
  /\ UNCHANGED <<callbackVars, config, page, env, boot>>

Issue(w) ==
  /\ thread[w].pc = "issue_token"
  /\ \E t \in WIssuerResults : Store(w, StepIssue(FrameOf(w), t))
  /\ UNCHANGED <<callbackVars, config, page, env, boot>>

NextConcurrent == \E w \in Workers : Arrive(w) \/ Exchange(w) \/ Fetch(w) \/ Verify(w) \/ Issue(w)

SpecConcurrent == InitConcurrent /\ [][NextConcurrent]_vars

\* The callback route together with the /frontend_redirect route.
NextRoutes == ReceiveCallback \/ ExchangeCode \/ FetchUser \/ VerifyRole \/ IssueToken \/ Finish \/ FollowRedirect \/ DirectFrontendRedirect

SpecRoutes == Init /\ [][NextRoutes]_vars

\* ---------------------------------------------------------------- properties

NonEmpty(x) == x # None /\ x # <<>>

Made(name) == \E i \in 1..Len(calls) : calls[i].name = name

Redirected == response.code = 302 /\ response.endpoint = "frontend_redirect"

HasStatus(status) == Redirected /\ "status" \in DOMAIN response.args /\ response.args["status"] = <<status>>

Statuses == {"error_no_code", "error_token_exchange", "error_no_access_token", "error_fetch_user_info", "error_missing_user_id", "error_role_check_failed", "error_role_check_config_missing", "unauthorized_role", "error_firebase_token", "success"}

Returned2xx(resp) == resp.kind = "http" /\ resp.status >= 200 /\ resp.status <= 299

ReturnedError(resp) == resp.kind = "http" /\ resp.status >= 400 /\ resp.status <= 599

\* The call came back and raise_for_status let it through.
ReturnedNoError(resp) == resp.kind = "http" /\ ~(resp.status >= 400 /\ resp.status <= 599)

Field(resp, k) == IF k \in DOMAIN resp.body THEN resp.body[k] ELSE None

MemberRoles(resp) == IF "roles" \in DOMAIN resp.body THEN resp.body["roles"] ELSE {}

BothConfigured == NonEmpty(REQUIRED_GUILD_ID) /\ NonEmpty(DISCORD_BOT_TOKEN)

\* C1 (as stated): create_custom_token is called only if the code was
\* non-empty, the token exchange returned 2xx with an access token, the user
\* fetch returned 2xx with a non-empty id, guild id and bot token were
\* configured, and the guild-member call returned 2xx with the required role.
C1_Original ==
  Made("create_custom_token") =>
    /\ NonEmpty(code)
    /\ Returned2xx(token_response) /\ NonEmpty(Field(token_response, "access_token"))
    /\ Returned2xx(user_response) /\ NonEmpty(Field(user_response, "id"))
    /\ BothConfigured
    /\ Returned2xx(member_detail_response) /\ REQUIRED_ROLE_ID \in MemberRoles(member_detail_response)

\* C1 (amended): create_custom_token is called only if the code was
\* non-empty, the token exchange came back with a status that is not 4xx/5xx
\* and an access token, the user fetch came back with a status that is not
\* 4xx/5xx and a non-empty id, guild id and bot token were configured, and the
\* guild-member call came back with a status that is not 4xx/5xx and the
\* required role among the member's roles.
C1_FailClosedIssuance ==
  Made("create_custom_token") =>
    /\ NonEmpty(code)
    /\ ReturnedNoError(token_response) /\ NonEmpty(Field(token_response, "access_token"))
    /\ ReturnedNoError(user_response) /\ NonEmpty(Field(user_response, "id"))
    /\ BothConfigured
    /\ ReturnedNoError(member_detail_response) /\ REQUIRED_ROLE_ID \in MemberRoles(member_detail_response)

C1_Witness == Made("create_custom_token") /\ Returned2xx(member_detail_response) /\ Returned2xx(user_response) /\ Returned2xx(token_response)

\* C2: every finished callback invocation answers with a 302 redirect to the
\* redirect step whose status is one of the ten enumerated values; no
\* exception escapes the handler.
C2_AlwaysRedirectsWithStatus ==
  pc = "done" => Redirected /\ \E st \in Statuses : HasStatus(st)

\* C3: with no custom avatar and the discriminator absent or "0", the default
\* avatar index in the avatar URL is (int(id) >> 22) mod 6.
C3_DefaultAvatarIndex ==
  (/\ pc \in {"verify_role", "issue_token"}
   /\ ~NonEmpty(Field(user_response, "avatar"))
   /\ Field(user_response, "discriminator") \in {None, <<>>, <<"0">>})
  => profile_picture_url = <<"https://cdn.discordapp.com/embed/avatars/">> \o IntToStr((ParseInt(discord_user_id) \div 4194304) % 6) \o <<".png">>

\* C4: a 2xx user response whose id is empty or missing ends in
\* error_missing_user_id, with no guild-member and no trust-issuer call,
\* whatever the avatar and discriminator fields are.
C4_MissingUserId ==
  (pc = "done" /\ Returned2xx(user_response) /\ ~NonEmpty(Field(user_response, "id")))
  => HasStatus("error_missing_user_id") /\ ~Made("guild_member") /\ ~Made("create_custom_token")

\* C5: a missing or empty code ends the request in error_no_code and none of
\* the four outbound calls is made.
C5_NoCode ==
  (pc # "idle" /\ ~NonEmpty(code)) => pc = "done" /\ HasStatus("error_no_code") /\ calls = <<>>

C5_Witness == pc = "done" /\ code = <<>> /\ HasStatus("error_no_code")

\* C6: with the guild id or the bot token not configured, no guild-member call
\* is ever made, no trust token is issued, and every request that reaches the
\* role gate leaves it with error_role_check_config_missing.
C6_ConfigMissingDenies ==
  /\ [](~BothConfigured => ~Made("guild_member") /\ ~Made("create_custom_token") /\ ~HasStatus("success"))
  /\ [][(~BothConfigured /\ pc = "verify_role") => (pc' = "done" /\ HasStatus("error_role_check_config_missing")' /\ calls' = calls)]_vars

C6_Witness == ~BothConfigured /\ NonEmpty(REQUIRED_GUILD_ID) /\ pc = "done" /\ HasStatus("error_role_check_config_missing")

\* C7 (as stated): a guild-member call that returns a non-2xx status or fails
\* with a network fault ends in error_role_check_failed, with no trust token.
C7_Original ==
  (member_detail_response.kind = "fault" \/ (member_detail_response.kind = "http" /\ ~Returned2xx(member_detail_response)))
  => pc = "done" /\ HasStatus("error_role_check_failed") /\ ~Made("create_custom_token")

\* C7 (amended): a guild-member call that returns a 4xx or 5xx status or fails
\* with a network fault ends in error_role_check_failed; no trust token is
\* issued, and the outcome is neither unauthorized_role nor success.
C7_RoleCheckFailed ==
  (member_detail_response.kind = "fault" \/ ReturnedError(member_detail_response))
  => /\ pc = "done" /\ HasStatus("error_role_check_failed")
     /\ ~Made("create_custom_token") /\ firebase_custom_token = None
     /\ ~HasStatus("unauthorized_role") /\ ~HasStatus("success")

C7_Witness == ReturnedError(member_detail_response) /\ REQUIRED_ROLE_ID \in MemberRoles(member_detail_response) /\ HasStatus("error_role_check_failed")

\* C8: after a 2xx guild-member response the role is verified iff the required
\* role id is among the returned roles (no roles field: the empty set); when it
\* is not, the result is unauthorized_role, the trust issuer is not called and
\* the redirect carries the status parameter only.
C8_RoleMembership ==
  Returned2xx(member_detail_response) =>
    /\ has_required_role <=> REQUIRED_ROLE_ID \in MemberRoles(member_detail_response)
    /\ REQUIRED_ROLE_ID \notin MemberRoles(member_detail_response) =>
         /\ pc = "done" /\ HasStatus("unauthorized_role")
         /\ ~Made("create_custom_token")
         /\ DOMAIN response.args = {"status"}

C8_Witness == Returned2xx(member_detail_response) /\ MemberRoles(member_detail_response) = {<<"A">>, <<"B">>} /\ HasStatus("unauthorized_role")

\* C9: with a non-empty code, four successful outbound calls and the required
\* role present, the redirect carries status=success, the issuer's token, the
\* fetched id, and discord_username / discord_pfp equal to the display name and
\* avatar URL that were put in the token's claims.
C9_SuccessResult ==
  (/\ pc = "done" /\ NonEmpty(code)
   /\ Returned2xx(token_response) /\ Returned2xx(user_response) /\ Returned2xx(member_detail_response)
   /\ REQUIRED_ROLE_ID \in MemberRoles(member_detail_response)
   /\ Made("create_custom_token") /\ firebase_custom_token # None)
  => /\ HasStatus("success")
     /\ {"token", "discord_user_id", "discord_username", "discord_pfp"} \subseteq DOMAIN response.args
     /\ response.args["token"] = firebase_custom_token
     /\ response.args["discord_user_id"] = Field(user_response, "id")
     /\ response.args["discord_username"] = calls[4].claims.discord_username
     /\ response.args["discord_pfp"] = calls[4].claims.discord_pfp
     /\ response.args["discord_username"] = display_name
     /\ response.args["discord_pfp"] = profile_picture_url

PipelineOrder == <<"token_exchange", "user_fetch", "guild_member", "create_custom_token">>

Rank(stage) == CASE stage = "idle" -> 0 [] stage = "token_exchange" -> 1 [] stage = "fetch_user" -> 2 [] stage = "verify_role" -> 3 [] stage = "issue_token" -> 4 [] stage = "done" -> 5

\* C10: within one request the outbound calls are made in the order token
\* exchange, user fetch, guild-member fetch, trust-token issuance, each at most
\* once; a call is made only if every earlier one succeeded (no error raised
\* and the value the next call needs present); once the request has its result
\* no further call is made, and the pipeline only moves forward.
C10_SequentialNoRetry ==
  /\ [](/\ Len(calls) <= 4
        /\ \A i \in 1..Len(calls) : calls[i].name = PipelineOrder[i]
        /\ Len(calls) >= 2 => ReturnedNoError(token_response) /\ NonEmpty(Field(token_response, "access_token"))
        /\ Len(calls) >= 3 => ReturnedNoError(user_response) /\ NonEmpty(Field(user_response, "id"))
        /\ Len(calls) >= 4 => ReturnedNoError(member_detail_response) /\ REQUIRED_ROLE_ID \in MemberRoles(member_detail_response))
  /\ [][/\ pc # "done" => (Rank(pc') > Rank(pc) /\ Len(calls') \in {Len(calls), Len(calls) + 1} /\ SubSeq(calls', 1, Len(calls)) = calls)
        /\ pc = "done" => (pc' = "idle" /\ calls' = <<>>)
        /\ response # NoReply => pc = "done"]_vars

C10_Witness == pc = "done" /\ Len(calls) = 4 /\ HasStatus("success")

\* C11: a token endpoint answer with status >= 400, or a network fault, ends
\* the request in error_token_exchange with no user-fetch, guild-member or
\* trust-issuer call.
C11_TokenExchangeError ==
  (token_response.kind = "fault" \/ (token_response.kind = "http" /\ token_response.status >= 400))
  => pc = "done" /\ HasStatus("error_token_exchange") /\ Len(calls) = 1 /\ calls[1].name = "token_exchange"

C11_Witness == ReturnedError(token_response) /\ NonEmpty(Field(token_response, "access_token")) /\ HasStatus("error_token_exchange")

\* C12: a 2xx token answer without an access_token field, or with an empty
\* one, ends the request in error_no_access_token and no user fetch is made.
C12_NoAccessToken ==
  (Returned2xx(token_response) /\ ~NonEmpty(Field(token_response, "access_token")))
  => pc = "done" /\ HasStatus("error_no_access_token") /\ ~Made("user_fetch")

C12_Witness == Returned2xx(token_response) /\ Field(token_response, "access_token") = <<>> /\ HasStatus("error_no_access_token")

\* C13 (as stated): a current-user call that returns a non-2xx status or fails
\* with a network fault ends in error_fetch_user_info, with no guild-member or
\* trust-issuer call.
C13_Original ==
  (pc = "done" /\ (user_response.kind = "fault" \/ (user_response.kind = "http" /\ ~Returned2xx(user_response))))
  => HasStatus("error_fetch_user_info") /\ ~Made("guild_member") /\ ~Made("create_custom_token")

\* C13 (amended): a current-user call that returns a 4xx or 5xx status or
\* fails with a network fault ends in error_fetch_user_info, with no
\* guild-member or trust-issuer call.
C13_FetchUserError ==
  (user_response.kind = "fault" \/ ReturnedError(user_response))
  => pc = "done" /\ HasStatus("error_fetch_user_info") /\ ~Made("guild_member") /\ ~Made("create_custom_token")

C13_Witness == ReturnedError(user_response) /\ NonEmpty(Field(user_response, "id")) /\ HasStatus("error_fetch_user_info")

IssuerRaised == Made("create_custom_token") /\ firebase_custom_token = None

\* C14: when the trust issuer raises after the role was verified, the result
\* is error_firebase_token, the redirect carries the status only (no token),
\* and the issuance was attempted once and is not attempted again.
C14_IssuerError ==
  /\ [](IssuerRaised => /\ pc = "done" /\ HasStatus("error_firebase_token")
                        /\ DOMAIN response.args = {"status"}
                        /\ Cardinality({i \in 1..Len(calls) : calls[i].name = "create_custom_token"}) = 1)
  /\ [][IssuerRaised => ~Made("create_custom_token")']_vars

C14_Witness == IssuerRaised /\ has_required_role /\ HasStatus("error_firebase_token")

\* C15: in every Success result and in the claims of every issued token the
\* display name is a non-empty string: the global name when that is present,
\* the username otherwise.
C15_DisplayNameNonEmpty ==
  /\ Made("create_custom_token") =>
       /\ NonEmpty(calls[4].claims.discord_username)
       /\ calls[4].claims.discord_username = (IF NonEmpty(Field(user_response, "global_name")) THEN Field(user_response, "global_name") ELSE Field(user_response, "username"))
  /\ HasStatus("success") =>
       /\ "discord_username" \in DOMAIN response.args
       /\ NonEmpty(response.args["discord_username"])

UserFetched == ReturnedNoError(user_response) /\ NonEmpty(Field(user_response, "id"))

LegacyDiscriminator(resp) == NonEmpty(Field(resp, "discriminator")) /\ Field(resp, "discriminator") # <<"0">>

\* C16: the avatar URL is determined by id, avatar hash and discriminator: with
\* a hash it is the CDN avatar URL of id and hash, whatever the discriminator;
\* without a hash and with a discriminator that is present and not "0" it is
\* the default avatar number (discriminator mod 5), which lies in 0..4.
C16_AvatarUrl ==
  UserFetched =>
    /\ NonEmpty(Field(user_response, "avatar")) =>
         profile_picture_url = <<"https://cdn.discordapp.com/avatars/">> \o Field(user_response, "id") \o <<"/">> \o Field(user_response, "avatar") \o <<".png">>
    /\ (~NonEmpty(Field(user_response, "avatar")) /\ LegacyDiscriminator(user_response)) =>
         /\ profile_picture_url = <<"https://cdn.discordapp.com/embed/avatars/">> \o IntToStr(ParseInt(Field(user_response, "discriminator")) % 5) \o <<".png">>
         /\ \E n \in 0..4 : profile_picture_url = <<"https://cdn.discordapp.com/embed/avatars/">> \o IntToStr(n) \o <<".png">>

C16_Witness == UserFetched /\ ~NonEmpty(Field(user_response, "avatar")) /\ Field(user_response, "discriminator") = <<"0", "0", "0", "7">> /\ profile_picture_url = <<"https://cdn.discordapp.com/embed/avatars/", "2", ".png">>

\* C20: within a request the member id of the guild-member call, the subject
\* of the trust token and discord_user_id of the Success redirect are the id
\* returned by the current-user call, which was made with the access token
\* obtained for this request's code; the bot token authorises the guild-member
\* call only and the access token the current-user call only.
C20_IdentityBinding ==
  /\ Len(calls) >= 1 => calls[1].subject = code
  /\ Len(calls) >= 2 => calls[2].auth = Field(token_response, "access_token")
  /\ Len(calls) >= 3 => calls[3].subject = Field(user_response, "id") /\ calls[3].auth = DISCORD_BOT_TOKEN
  /\ Len(calls) >= 4 => calls[4].subject = Field(user_response, "id")
  /\ HasStatus("success") => response.args["discord_user_id"] = Field(user_response, "id")
  /\ \A i \in 1..Len(calls) :
       /\ (NonEmpty(DISCORD_BOT_TOKEN) /\ calls[i].auth = DISCORD_BOT_TOKEN) => calls[i].name = "guild_member"
       /\ (Len(calls) >= 2 /\ calls[i].auth = Field(token_response, "access_token")) => calls[i].name = "user_fetch"

C20_Witness == HasStatus("success") /\ Len(calls) = 4 /\ calls[3].subject = <<"2", "9", "3", "6", "0", "1", "2", "8">>

PageAnnouncesSuccess == page.via # "none" /\ (page.status = <<"success">> \/ page.token # <<>>)

CallbackSucceeded == pc = "done" /\ has_required_role /\ Made("create_custom_token") /\ firebase_custom_token # None /\ HasStatus("success")

\* C19 (as stated): a /frontend_redirect page with status=success or a
\* non-empty token exists only as the continuation of a callback that verified
\* the role and obtained that token from the issuer, and every page carries a
\* status of the enumeration.
C19_Original ==
  /\ PageAnnouncesSuccess => (page.via = "callback" /\ CallbackSucceeded /\ page.token = firebase_custom_token)
  /\ page.via # "none" => \E st \in Statuses : page.status = <<st>>

\* C19 (amended): a /frontend_redirect page rendered for the 302 of a callback
\* carries status=success or a non-empty token only if that callback verified
\* the role and obtained that token from the issuer, and its status is one of
\* the enumeration; a request made to /frontend_redirect directly is rendered
\* with the parameters it carries, status "error" when it carries none.
C19_PageOfCallback ==
  /\ page.via = "callback" =>
       /\ PageAnnouncesSuccess => (CallbackSucceeded /\ page.token = firebase_custom_token /\ page.status = <<"success">>)
       /\ \E st \in Statuses : page.status = <<st>> /\ HasStatus(st)
  /\ page.via = "direct" => (page.status \in {<<"error">>, <<"success">>, <<"anything">>} /\ page.token \in {<<>>, <<"forged">>})

C19_Witness == page.via = "callback" /\ page.status = <<"success">> /\ page.token = <<"signed123">> /\ CallbackSucceeded

Present(name) == env.vars[name] # None /\ env.vars[name] # <<>>

Checked == {"DISCORD_CLIENT_ID", "DISCORD_CLIENT_SECRET", "DISCORD_GUILD_ID", "DISCORD_BOT_TOKEN"}

\* C18 (as stated): in non-dev launch mode the serving state is not reached
\* when the client id, the client secret, the redirect URI, the guild id, the
\* bot token, the trust-issuer credential or the session secret is absent.
C18_Original ==
  boot.stage = "serving_prod" =>
    /\ \A n \in Checked \cup {"DISCORD_REDIRECT_URI", "FLASK_SECRET_KEY"} : Present(n)
    /\ boot.firebase = "initialized"

\* C18 (amended): in non-dev launch mode the serving state is not reached when
\* the client id, the client secret, the guild id or the bot token is absent:
\* each of these absences ends startup with exit status 1.  An absent redirect
\* URI or session secret is replaced by a built-in default and an unusable
\* trust-issuer credential is only reported; none of the three stops startup.
C18_RequiredConfiguration ==
  /\ boot.stage = "serving_prod" => \A n \in Checked : Present(n)
  /\ (boot.stage \in {"launch", "serving_dev", "serving_prod", "exited"} /\ \E n \in Checked : ~Present(n)) => (boot.stage = "exited" /\ boot.exit_code = 1)
  /\ boot.stage = "exited" => (boot.exit_code = 1 /\ \E n \in Checked : ~Present(n))
  /\ boot.stage = "serving_prod" =>
       /\ env.vars["DISCORD_REDIRECT_URI"] = None => boot.redirect_uri = <<"https://scenepacks-652656771624.us-central1.run.app/callback">>
       /\ env.vars["FLASK_SECRET_KEY"] = None => boot.secret_key = <<"a_very_insecure_default_secret_key_change_this_in_production">>

C18_Witness == boot.stage = "exited" /\ boot.exit_code = 1 /\ ~Present("DISCORD_BOT_TOKEN") /\ Present("DISCORD_CLIENT_ID") /\ Present("DISCORD_CLIENT_SECRET") /\ Present("DISCORD_GUILD_ID") /\ env.vars["FLASK_ENV"] # <<"development">>

\* The handler run alone on what a request was given.
Alone(t) ==
  LET f0 == StepReceive(FreshFrame, t.code)
      f1 == IF f0.pc = "token_exchange" THEN StepExchange(f0, t.token_response) ELSE f0
      f2 == IF f1.pc = "fetch_user" THEN StepFetch(f1, t.user_response) ELSE f1
      f3 == IF f2.pc = "verify_role" THEN StepVerify(f2, t.member_detail_response, REQUIRED_GUILD_ID, DISCORD_BOT_TOKEN) ELSE f2
      f4 == IF f3.pc = "issue_token" THEN StepIssue(f3, t.issuer_result) ELSE f3
  IN  f4

\* C17: under every interleaving of concurrent callback requests, the response
\* of a finished request and the calls it made are those of the handler run
\* alone on that request's code and on the answers to its own calls; a step of
\* one request leaves the variables of the others untouched, and the
\* configuration never changes.
C17_RequestIsolation ==
  /\ [](\A w \in Workers : thread[w].pc = "done" => (thread[w].response = Alone(thread[w]).response /\ thread[w].calls = Alone(thread[w]).calls))
  /\ [][/\ REQUIRED_GUILD_ID' = REQUIRED_GUILD_ID /\ DISCORD_BOT_TOKEN' = DISCORD_BOT_TOKEN
        /\ \A w \in Workers : thread'[w] = thread[w] => locals'[w] = locals[w]]_vars

C17_Witness ==
  /\ thread[1].pc = "done" /\ thread[1].response.code = 302 /\ thread[1].response.args["status"] = <<"success">>
  /\ thread[2].pc = "issue_token"
  /\ locals[1].discord_user_id # locals[2].discord_user_id

====
